---- MODULE Spec2Model ----
(***************************************************************************)
(* Two-phase commit of money transfers: one coordinator (execute_2pc) and  *)
(* the participant nodes (prepare / commit / abort, the lock manager, the  *)
(* write-ahead log and the recovery manager), each node on its own         *)
(* database.  Durable rows are the variables gtx, ltx, locks, wal and      *)
(* balance; a handler's uncommitted work lives in its own position record  *)
(* (prep, rec) and is lost when the node is killed.                         *)
(***************************************************************************)
EXTENDS Integers, Sequences, FiniteSets, TLC

\* ---------------------------------------------------------------- bounds
MaxAmount == 1
MaxGlobal == 2
MaxJoint == 1
MaxCrashes == 1
MaxLocal == 2
SeedBalanceA == 0
SeedBalanceB == 1

\* ------------------------------------------------------------ the world
Nodes == {"n1", "n2"}
TxIds == {"t1", "t2"}
Accounts == {"A", "B"}
Amounts == 1..MaxAmount

\* the account rows each participant schema is seeded with
SeedBalance(n, a) ==
    IF n = "n1" /\ a = "A" THEN SeedBalanceA
    ELSE IF n = "n2" /\ a = "B" THEN SeedBalanceB
    ELSE -1

HasAccount(n, a) == SeedBalance(n, a) >= 0

\* settings.nodes[node]["url"]
Url(n) == "http://" \o n

NodeOf(u) == CHOOSE n \in Nodes : Url(n) = u

\* ------------------------------------------------------------ HTTP edge
\* the paths a participant process serves: participant_router is included
\* without a prefix
ParticipantRoutes == {"/prepare", "/commit", "/abort", "/recover"}

Registered(path) == path \in ParticipantRoutes

\* the path execute_2pc posts a request of this kind to, below the node url
CoordinatorPath(kind) == "/api/" \o kind

\* the path of the participant endpoint itself
ClientPath(kind) == "/" \o kind

NoResponses == [u \in {} |-> ""]

Pending == [kind |-> "pending", status |-> 0, vote |-> ""]
Raised == [kind |-> "exc", status |-> 0, vote |-> ""]
HttpResponse(status, vote) == [kind |-> "http", status |-> status, vote |-> vote]

\* ------------------------------------------------------------ data model
NoOp == [from_account |-> "", to_account |-> "", amount |-> 0,
         from_node |-> "", to_node |-> ""]

HomeAccount(n) == IF n = "n1" THEN "A" ELSE "B"

OtherAccount(a) == IF a = "A" THEN "B" ELSE "A"

\* the transfers a caller asks for: each names its two nodes and two distinct
\* accounts, the source account being one its node owns
TransferRequests ==
    {[from_account |-> HomeAccount(f),
      to_account |-> OtherAccount(HomeAccount(f)),
      amount |-> x, from_node |-> f, to_node |-> g] :
        f \in Nodes, g \in Nodes, x \in Amounts}

NoVotes == [u \in {} |-> "no"]

NoGtx == [status |-> "NONE", op |-> NoOp, participant_urls |-> <<>>,
          participant_votes |-> NoVotes, participant_decisions |-> NoVotes,
          prepare_started_at |-> FALSE, decision_made_at |-> FALSE]

NoLtx == [status |-> "NONE", vote |-> "", operation_type |-> "",
          local_account |-> "", local_delta |-> 0]

VARIABLES
    gtx,      \* coordinator: GlobalTransaction rows, by id
    cpc,      \* coordinator: position of the execute_2pc task of each id
    all_yes,  \* coordinator: the task's local all_yes, once tallied
    presp,    \* coordinator: what each prepare request has settled to
    dresp,    \* coordinator: what each decision request has settled to
    net,      \* requests of the coordinator that have not reached their node
    sent,     \* history: every request the coordinator ever sent
    up,       \* participant process: "up", "down" or "recovering"
    ltx,      \* participant: LocalTransaction rows
    locks,    \* participant: Lock rows
    wal,      \* participant: TransactionLog rows, in insertion order
    balance,  \* participant: Account.balance
    prep,     \* participant: position of a running prepare_transaction
    rec,      \* participant: position of the startup recovery run
    crashes   \* number of kills so far

vars == <<gtx, cpc, all_yes, presp, dresp, net, sent, up, ltx, locks, wal, balance,
          prep, rec, crashes>>

coordVars == <<gtx, cpc, all_yes, presp, dresp, sent>>
partVars == <<up, ltx, locks, wal, balance, prep, rec, crashes>>
dbVars == <<ltx, locks, wal, balance>>

\* --------------------------------------------------------- coordinator
\* api/coordinator.py: the participant urls of a transfer, one entry when
\* both accounts live on the same node
ResolveParticipants(req) ==
    IF req.from_node = req.to_node
    THEN <<Url(req.from_node)>>
    ELSE <<Url(req.from_node), Url(req.to_node)>>

\* dict[node_url -> operation]: the credit entry is written last, so it
\* replaces the debit entry when both nodes have the same url
DeriveParticipantOperations(op) ==
    [u \in {Url(op.from_node), Url(op.to_node)} |->
        IF u = Url(op.to_node)
        THEN [account_id |-> op.to_account, delta |-> op.amount]
        ELSE [account_id |-> op.from_account, delta |-> 0 - op.amount]]

\* POST /api/transaction/transfer: insert the row with status INIT and
\* schedule execute_2pc as a background task
CreateTransfer(t, req) ==
    /\ gtx[t].status = "NONE"
    /\ Cardinality({x \in TxIds : gtx[x].status # "NONE"}) < MaxGlobal
    /\ gtx' = [gtx EXCEPT ![t] =
                 [status |-> "INIT", op |-> req,
                  participant_urls |-> ResolveParticipants(req),
                  participant_votes |-> NoVotes,
                  participant_decisions |-> NoVotes,
                  prepare_started_at |-> FALSE,
                  decision_made_at |-> FALSE]]
    /\ cpc' = [cpc EXCEPT ![t] = "scheduled"]
    /\ UNCHANGED <<all_yes, presp, dresp, net, sent>>
    /\ UNCHANGED partVars

PrepareMessage(t, u, o) ==
    [t |-> t, node |-> NodeOf(u), kind |-> "prepare",
     operation_type |-> "transfer",
     local_account |-> o.account_id, local_delta |-> o.delta]

\* a plausible bug: the decision posted to a node follows that node's own
\* vote instead of the tally
DecisionMessageByOwnVote(t, u, decision) ==
    [t |-> t, node |-> NodeOf(u),
     kind |-> IF presp[t][u].kind = "exc" THEN "abort" ELSE "commit",
     operation_type |-> "", local_account |-> "", local_delta |-> 0]

DecisionMessage(t, u, decision) ==
    [t |-> t, node |-> NodeOf(u), kind |-> decision,
     operation_type |-> "", local_account |-> "", local_delta |-> 0]

\* execute_2pc, phase 1: load the row, post one prepare per participant url
ExecSendPrepare(t) ==
    /\ cpc[t] = "scheduled"
    /\ gtx[t].status # "NONE"
    /\ LET ops == DeriveParticipantOperations(gtx[t].op)
           msgs == {PrepareMessage(t, u, ops[u]) : u \in DOMAIN ops}
       IN /\ net' = net \cup msgs
          /\ sent' = sent \cup msgs
          /\ presp' = [presp EXCEPT ![t] = [u \in DOMAIN ops |-> Pending]]
    /\ cpc' = [cpc EXCEPT ![t] = "prepare"]
    /\ UNCHANGED <<gtx, all_yes, dresp>>
    /\ UNCHANGED partVars

\* the vote execute_2pc records for one settled prepare request
VoteOf(resp) ==
    IF resp.kind = "exc" \/ resp.status # 200 THEN "no" ELSE resp.vote

\* a plausible bug: only a raised exception counts against the commit
AllYesUnlessRaised(resps) == \A u \in DOMAIN resps : resps[u].kind # "exc"

\* all_yes after the tally loop
AllYes(resps) ==
    \A u \in DOMAIN resps :
        /\ ~(resps[u].kind = "exc" \/ resps[u].status # 200)
        /\ resps[u].vote = "yes"

DecisionStatus(yes) == IF yes THEN "COMMITTING" ELSE "ABORTING"

\* a plausible bug: phase 2 always posts to the commit endpoint
DecisionAlwaysCommit(yes) == "commit"

Decision(yes) == IF yes THEN "commit" ELSE "abort"

\* a plausible bug: the terminal write ignores all_yes
FinalStatusAlwaysCommitted(yes) == "COMMITTED"

FinalStatus(yes) == IF yes THEN "COMMITTED" ELSE "ABORTED"

\* a plausible bug: gather without return_exceptions, so that a request that
\* raises ends the task
SettledWithoutException(resps) == \A u \in DOMAIN resps : resps[u].kind = "http"

Settled(resps) == \A u \in DOMAIN resps : resps[u].kind # "pending"

\* execute_2pc after gather: tally, persist votes and the decision status,
\* then post the decision to every participant url
ExecDecide(t) ==
    /\ cpc[t] = "prepare"
    /\ Settled(presp[t])
    /\ LET yes == AllYes(presp[t])
           votes == [u \in DOMAIN presp[t] |-> VoteOf(presp[t][u])]
           msgs == {DecisionMessage(t, u, Decision(yes)) : u \in DOMAIN presp[t]}
       IN /\ gtx' = [gtx EXCEPT ![t].participant_votes = votes,
                                ![t].status = DecisionStatus(yes)]
          /\ all_yes' = [all_yes EXCEPT ![t] = yes]
          /\ net' = net \cup msgs
          /\ sent' = sent \cup msgs
          /\ dresp' = [dresp EXCEPT ![t] = [u \in DOMAIN presp[t] |-> Pending]]
    /\ cpc' = [cpc EXCEPT ![t] = "decision"]
    /\ presp' = [presp EXCEPT ![t] = NoResponses]
    /\ UNCHANGED partVars

\* participant_decisions after phase 2: the results of the second gather are
\* discarded and the column keeps what create_transfer stored
ParticipantDecisions(prior, resps, decision) == prior

\* execute_2pc after the second gather: the terminal status
ExecFinish(t) ==
    /\ cpc[t] = "decision"
    /\ Settled(dresp[t])
    /\ gtx' = [gtx EXCEPT ![t].status = FinalStatus(all_yes[t]),
                          ![t].participant_decisions =
                              ParticipantDecisions(@, dresp[t], Decision(all_yes[t])),
                          ![t].decision_made_at = TRUE]
    /\ cpc' = [cpc EXCEPT ![t] = "done"]
    /\ dresp' = [dresp EXCEPT ![t] = NoResponses]
    /\ UNCHANGED <<all_yes, presp, net, sent>>
    /\ UNCHANGED partVars

\* what the coordinator awaits for message m
Awaited(m) ==
    IF m.kind = "prepare"
    THEN cpc[m.t] = "prepare" /\ presp[m.t][Url(m.node)].kind = "pending"
    ELSE cpc[m.t] = "decision" /\ dresp[m.t][Url(m.node)].kind = "pending"

\* the coordinator's view after message m is answered with r: the answer
\* is dropped when the client has already given the request up
Respond(m, r) ==
    IF ~Awaited(m)
    THEN UNCHANGED <<presp, dresp>>
    ELSE IF m.kind = "prepare"
    THEN /\ presp' = [presp EXCEPT ![m.t][Url(m.node)] = r]
         /\ UNCHANGED dresp
    ELSE /\ dresp' = [dresp EXCEPT ![m.t][Url(m.node)] = r]
         /\ UNCHANGED presp

\* the requests to url u for transaction t that no route of the node serves:
\* once the client has given one up, nothing it does later can be observed
Unserved(t, u, kinds) ==
    {m \in net : /\ m.t = t /\ m.node = NodeOf(u) /\ m.kind \in kinds
                 /\ ~Registered(CoordinatorPath(m.kind))}

\* httpx raises: the request timed out (prepare_timeout, commit_timeout);
\* a request some route serves may still reach its handler later
RequestTimeout(t, u) ==
    /\ \/ /\ cpc[t] = "prepare"
          /\ u \in DOMAIN presp[t]
          /\ presp[t][u].kind = "pending"
          /\ presp' = [presp EXCEPT ![t][u] = Raised]
          /\ net' = net \ Unserved(t, u, {"prepare"})
          /\ UNCHANGED dresp
       \/ /\ cpc[t] = "decision"
          /\ u \in DOMAIN dresp[t]
          /\ dresp[t][u].kind = "pending"
          /\ dresp' = [dresp EXCEPT ![t][u] = Raised]
          /\ net' = net \ Unserved(t, u, {"commit", "abort"})
          /\ UNCHANGED presp
    /\ UNCHANGED <<gtx, cpc, all_yes, sent>>
    /\ UNCHANGED partVars

\* httpx raises: nobody listens on the node's port
ConnectError(m) ==
    /\ m \in net
    /\ up[m.node] # "up"
    /\ net' = net \ {m}
    /\ Respond(m, Raised)
    /\ UNCHANGED <<gtx, cpc, all_yes, sent>>
    /\ UNCHANGED partVars

\* a participant process answers a path it does not serve
NotFound(m) ==
    /\ m \in net
    /\ up[m.node] = "up"
    /\ ~Registered(CoordinatorPath(m.kind))
    /\ net' = net \ {m}
    /\ Respond(m, HttpResponse(404, ""))
    /\ UNCHANGED <<gtx, cpc, all_yes, sent>>
    /\ UNCHANGED partVars

\* --------------------------------------------------------- participant
Idle == [pc |-> "idle", from_coord |-> FALSE, operation_type |-> "",
         local_account |-> "", local_delta |-> 0]

Abs(x) == IF x < 0 THEN 0 - x ELSE x

\* the prepare requests any HTTP client can post to POST /prepare
ClientPrepares(n, t) ==
    {[t |-> t, node |-> n, kind |-> "prepare", operation_type |-> "transfer",
      local_account |-> a, local_delta |-> d] :
        a \in Accounts, d \in {0 - MaxAmount, 1}}
    \cup {[t |-> t, node |-> n, kind |-> "prepare", operation_type |-> "other",
           local_account |-> "", local_delta |-> 0]}

ClientDecision(n, t, kind) ==
    [t |-> t, node |-> n, kind |-> kind, operation_type |-> "",
     local_account |-> "", local_delta |-> 0]

\* the requests of one kind that reach a handler of node n: those of the
\* coordinator whose path the node serves, and those of any other client
Arrivals(n, t, kind) ==
    {<<m, TRUE>> : m \in {x \in net : /\ x.node = n /\ x.t = t /\ x.kind = kind
                                      /\ Registered(CoordinatorPath(kind))}}
    \cup {<<m, FALSE>> : m \in IF ~Registered(ClientPath(kind)) THEN {}
                               ELSE IF kind = "prepare" THEN ClientPrepares(n, t)
                               ELSE {ClientDecision(n, t, kind)}}

Taken(a) == IF a[2] THEN net \ {a[1]} ELSE net

Reply(a, r) ==
    IF a[2] THEN Respond(a[1], r) ELSE UNCHANGED <<presp, dresp>>

\* a plausible bug: log_prepare marks its row as applied
LogPrepareApplied(t, before, after) ==
    [transaction_id |-> t, log_type |-> "prepare", applied |-> TRUE,
     old_state |-> before, new_state |-> after]

\* TransactionManager: the rows log_prepare, log_commit and log_abort add
LogPrepare(t, before, after) ==
    [transaction_id |-> t, log_type |-> "prepare", applied |-> FALSE,
     old_state |-> before, new_state |-> after]

LogCommit(t) ==
    [transaction_id |-> t, log_type |-> "commit", applied |-> TRUE,
     old_state |-> -1, new_state |-> -1]

LogAbort(t) ==
    [transaction_id |-> t, log_type |-> "abort", applied |-> TRUE,
     old_state |-> -1, new_state |-> -1]

RecoveryLog(t) ==
    [transaction_id |-> t, log_type |-> "recovery_abort", applied |-> TRUE,
     old_state |-> -1, new_state |-> -1]

\* LockManager.acquire_write_lock, the poll: an unreleased row on the resource
ExistingLock(rows, resource) ==
    \E l \in rows : l.resource_id = resource /\ ~l.released

\* a plausible bug: the Lock table has no unique constraint
NoUniqueViolation(rows, resource) == FALSE

\* uq_lock_resource (resource_type, resource_id, node_id, lock_type): a second
\* row for the resource is refused, whether or not the first is released
UniqueViolation(rows, resource) ==
    \E l \in rows : l.resource_id = resource

NewLock(t, resource) ==
    [resource_id |-> resource, transaction_id |-> t, released |-> FALSE]

\* a plausible bug: release_all_locks leaves released_at unset
ReleaseNoLocks(rows, t) == rows

\* LockManager.release_all_locks
ReleaseAllLocks(rows, t) ==
    {IF l.transaction_id = t THEN [l EXCEPT !.released = TRUE] ELSE l : l \in rows}

\* a plausible bug: prepare_transaction skips the balance check
NeverInsufficientFunds(bal, delta) == FALSE

\* the validation of prepare_transaction (only for a debit)
InsufficientFunds(bal, delta) == delta < 0 /\ bal < Abs(delta)

\* prepare_transaction when the LocalTransaction row of (transaction, node)
\* exists: the insert violates uq_local_transaction, flush raises, and the
\* endpoint answers with this vote out of its except branch
DuplicateVote(row) == "no"

\* POST /prepare, first part of prepare_transaction: insert the
\* LocalTransaction row; anything but a transfer is PREPARED at once
PrepareBegin(n, t) ==
    /\ up[n] = "up"
    /\ prep[n][t].pc = "idle"
    /\ \E a \in Arrivals(n, t, "prepare") :
        LET m == a[1] IN
        /\ net' = Taken(a)
        /\ IF ltx[n][t].status # "NONE"
           THEN \* uq_local_transaction: the flush raises, the endpoint answers "no"
                /\ Reply(a, HttpResponse(200, DuplicateVote(ltx[n][t])))
                /\ UNCHANGED <<ltx, prep>>
           ELSE IF m.operation_type # "transfer"
           THEN /\ ltx' = [ltx EXCEPT ![n][t] =
                             [status |-> "PREPARED", vote |-> "yes",
                              operation_type |-> m.operation_type,
                              local_account |-> m.local_account,
                              local_delta |-> m.local_delta]]
                /\ Reply(a, HttpResponse(200, "yes"))
                /\ UNCHANGED prep
           ELSE /\ prep' = [prep EXCEPT ![n][t] =
                              [pc |-> "acquire", from_coord |-> a[2],
                               operation_type |-> m.operation_type,
                               local_account |-> m.local_account,
                               local_delta |-> m.local_delta]]
                /\ UNCHANGED <<ltx, presp, dresp>>
    /\ UNCHANGED <<gtx, cpc, all_yes, sent, up, locks, wal, balance, rec, crashes>>

PrepareReply(n, t, vote) ==
    IF prep[n][t].from_coord
    THEN Respond(ClientDecision(n, t, "prepare"), HttpResponse(200, vote))
    ELSE UNCHANGED <<presp, dresp>>

\* _abort_prepare: the durable rows it commits
AbortPrepared(n, t, rows) ==
    /\ ltx' = [ltx EXCEPT ![n][t] =
                 [status |-> "ABORTED", vote |-> "no",
                  operation_type |-> prep[n][t].operation_type,
                  local_account |-> prep[n][t].local_account,
                  local_delta |-> prep[n][t].local_delta]]
    /\ locks' = [locks EXCEPT ![n] = ReleaseAllLocks(rows, t)]

\* acquire_write_lock, one turn of its loop: once lock_timeout has elapsed
\* (never on the first turn) it gives up, and prepare_transaction runs
\* _abort_prepare and votes "no"; otherwise it polls the Lock table, and
\* sleeps when an unreleased row is found
AcquireWriteLock(n, t) ==
    /\ up[n] = "up"
    /\ prep[n][t].pc \in {"acquire", "waiting"}
    /\ \E elapsed \in BOOLEAN :
         IF elapsed /\ prep[n][t].pc = "waiting"
         THEN /\ AbortPrepared(n, t, locks[n])
              /\ prep' = [prep EXCEPT ![n][t] = Idle]
              /\ PrepareReply(n, t, "no")
         ELSE /\ prep' = [prep EXCEPT ![n][t].pc =
                            IF ExistingLock(locks[n], prep[n][t].local_account)
                            THEN "waiting" ELSE "insert"]
              /\ UNCHANGED <<ltx, locks, presp, dresp>>
    /\ UNCHANGED <<gtx, cpc, all_yes, net, sent, up, wal, balance, rec, crashes>>

\* the rest of prepare_transaction after a free poll: insert the lock row,
\* read the account, validate, log, commit
PrepareFinish(n, t) ==
    /\ up[n] = "up"
    /\ prep[n][t].pc = "insert"
    /\ prep' = [prep EXCEPT ![n][t] = Idle]
    /\ LET acct == prep[n][t].local_account
           delta == prep[n][t].local_delta
           rows == locks[n] \cup {NewLock(t, acct)}
       IN IF UniqueViolation(locks[n], acct)
          THEN \* the flush raises: nothing is committed, the endpoint answers "no"
               /\ PrepareReply(n, t, "no")
               /\ UNCHANGED <<ltx, locks, wal>>
          ELSE IF ~HasAccount(n, acct) \/ InsufficientFunds(balance[n][acct], delta)
          THEN /\ AbortPrepared(n, t, rows)
               /\ PrepareReply(n, t, "no")
               /\ UNCHANGED wal
          ELSE /\ ltx' = [ltx EXCEPT ![n][t] =
                            [status |-> "PREPARED", vote |-> "yes",
                             operation_type |-> prep[n][t].operation_type,
                             local_account |-> acct, local_delta |-> delta]]
               /\ locks' = [locks EXCEPT ![n] = rows]
               /\ wal' = [wal EXCEPT ![n] =
                            Append(@, LogPrepare(t, balance[n][acct],
                                                 balance[n][acct] + delta))]
               /\ PrepareReply(n, t, "yes")
    /\ UNCHANGED <<gtx, cpc, all_yes, net, sent, up, balance, rec, crashes>>

\* a plausible bug: _apply_delta adds the amount, whatever the sign of the delta
ApplyAmount(bal, delta) == bal + Abs(delta)

\* _apply_delta
ApplyDelta(bal, delta) == bal + delta

\* a plausible bug: commit_transaction returns early only for an absent or
\* COMMITTED row, and so commits a row the node voted "no" for
CommitTransactionAfterNo(n, t) ==
    /\ up[n] = "up"
    /\ \E a \in Arrivals(n, t, "commit") :
        /\ net' = Taken(a)
        /\ Reply(a, HttpResponse(200, ""))
        /\ IF ltx[n][t].status \notin {"PREPARED", "ABORTED"}
           THEN UNCHANGED dbVars
           ELSE /\ balance' =
                     IF /\ ltx[n][t].operation_type = "transfer"
                        /\ HasAccount(n, ltx[n][t].local_account)
                     THEN [balance EXCEPT ![n][ltx[n][t].local_account] =
                              ApplyDelta(@, ltx[n][t].local_delta)]
                     ELSE balance
                /\ ltx' = [ltx EXCEPT ![n][t].status = "COMMITTED"]
                /\ wal' = [wal EXCEPT ![n] = Append(@, LogCommit(t))]
                /\ locks' = [locks EXCEPT ![n] = ReleaseAllLocks(@, t)]
    /\ UNCHANGED <<gtx, cpc, all_yes, sent, up, prep, rec, crashes>>

\* a plausible bug: commit_transaction applies the delta of a row that is
\* already COMMITTED
CommitTransactionUnguarded(n, t) ==
    /\ up[n] = "up"
    /\ \E a \in Arrivals(n, t, "commit") :
        /\ net' = Taken(a)
        /\ Reply(a, HttpResponse(200, ""))
        /\ IF ltx[n][t].status \notin {"PREPARED", "COMMITTED"}
           THEN UNCHANGED dbVars
           ELSE /\ balance' =
                     IF ltx[n][t].operation_type = "transfer"
                     THEN [balance EXCEPT ![n][ltx[n][t].local_account] =
                              ApplyDelta(@, ltx[n][t].local_delta)]
                     ELSE balance
                /\ ltx' = [ltx EXCEPT ![n][t].status = "COMMITTED"]
                /\ wal' = [wal EXCEPT ![n] = Append(@, LogCommit(t))]
                /\ locks' = [locks EXCEPT ![n] = ReleaseAllLocks(@, t)]
    /\ UNCHANGED <<gtx, cpc, all_yes, sent, up, prep, rec, crashes>>

\* POST /commit, commit_transaction: one database transaction
CommitTransaction(n, t) ==
    /\ up[n] = "up"
    /\ \E a \in Arrivals(n, t, "commit") :
        /\ net' = Taken(a)
        /\ Reply(a, HttpResponse(200, ""))
        /\ IF ltx[n][t].status # "PREPARED"
           THEN UNCHANGED dbVars
           ELSE /\ balance' =
                     IF ltx[n][t].operation_type = "transfer"
                     THEN [balance EXCEPT ![n][ltx[n][t].local_account] =
                              ApplyDelta(@, ltx[n][t].local_delta)]
                     ELSE balance
                /\ ltx' = [ltx EXCEPT ![n][t].status = "COMMITTED"]
                /\ wal' = [wal EXCEPT ![n] = Append(@, LogCommit(t))]
                /\ locks' = [locks EXCEPT ![n] = ReleaseAllLocks(@, t)]
    /\ UNCHANGED <<gtx, cpc, all_yes, sent, up, prep, rec, crashes>>

\* a plausible bug: abort_transaction sets the status and leaves the locks
AbortedKeepsLocks(n, t) ==
    /\ ltx' = [ltx EXCEPT ![n][t].status = "ABORTED"]
    /\ locks' = locks

\* abort_transaction: what it commits for a row that is not terminal
Aborted(n, t) ==
    /\ ltx' = [ltx EXCEPT ![n][t].status = "ABORTED"]
    /\ locks' = [locks EXCEPT ![n] = ReleaseAllLocks(@, t)]

\* a plausible bug: abort_transaction returns early only for an absent row
AbortTransactionUnguarded(n, t) ==
    /\ up[n] = "up"
    /\ \E a \in Arrivals(n, t, "abort") :
        /\ net' = Taken(a)
        /\ Reply(a, HttpResponse(200, ""))
        /\ IF ltx[n][t].status = "NONE"
           THEN UNCHANGED dbVars
           ELSE /\ Aborted(n, t)
                /\ wal' = [wal EXCEPT ![n] = Append(@, LogAbort(t))]
                /\ UNCHANGED balance
    /\ UNCHANGED <<gtx, cpc, all_yes, sent, up, prep, rec, crashes>>

\* POST /abort, abort_transaction: one database transaction
AbortTransaction(n, t) ==
    /\ up[n] = "up"
    /\ \E a \in Arrivals(n, t, "abort") :
        /\ net' = Taken(a)
        /\ Reply(a, HttpResponse(200, ""))
        /\ IF ltx[n][t].status \in {"NONE", "COMMITTED", "ABORTED"}
           THEN UNCHANGED dbVars
           ELSE /\ Aborted(n, t)
                /\ wal' = [wal EXCEPT ![n] = Append(@, LogAbort(t))]
                /\ UNCHANGED balance
    /\ UNCHANGED <<gtx, cpc, all_yes, sent, up, prep, rec, crashes>>

\* ------------------------------------------------- crash and recovery
NoRecovery == [todo |-> {}, pending |-> <<>>]

\* the process is killed: every running handler and its uncommitted work
\* are gone, and a coordinator still waiting on one of them sees an error
Crash(n) ==
    /\ up[n] # "down"
    /\ crashes < MaxCrashes
    /\ crashes' = crashes + 1
    /\ up' = [up EXCEPT ![n] = "down"]
    /\ prep' = [prep EXCEPT ![n] = [t \in TxIds |-> Idle]]
    /\ rec' = [rec EXCEPT ![n] = NoRecovery]
    /\ presp' = [t \in TxIds |->
                   [u \in DOMAIN presp[t] |->
                      IF /\ u = Url(n) /\ prep[n][t].pc # "idle"
                         /\ prep[n][t].from_coord
                         /\ cpc[t] = "prepare" /\ presp[t][u].kind = "pending"
                      THEN Raised ELSE presp[t][u]]]
    /\ UNCHANGED <<gtx, cpc, all_yes, dresp, net, sent>>
    /\ UNCHANGED dbVars

\* a plausible bug: the process serves requests without running recovery
RestartWithoutRecovery(n) ==
    /\ up[n] = "down"
    /\ up' = [up EXCEPT ![n] = "up"]
    /\ UNCHANGED <<gtx, cpc, all_yes, presp, dresp, net, sent>>
    /\ UNCHANGED <<ltx, locks, wal, balance, prep, rec, crashes>>

\* lifespan startup, RecoveryManager.recover: select the PREPARED rows
Restart(n) ==
    /\ up[n] = "down"
    /\ up' = [up EXCEPT ![n] = "recovering"]
    /\ rec' = [rec EXCEPT ![n] =
                 [todo |-> {t \in TxIds : ltx[n][t].status = "PREPARED"},
                  pending |-> <<>>]]
    /\ UNCHANGED <<gtx, cpc, all_yes, presp, dresp, net, sent>>
    /\ UNCHANGED <<ltx, locks, wal, balance, prep, crashes>>

\* one turn of the recovery loop: abort_transaction commits the abort of t
\* together with the recovery_abort row added in the turn before; the
\* recovery_abort row of t itself is added and waits for the next commit
RecoverStep(n, t) ==
    /\ up[n] = "recovering"
    /\ t \in rec[n].todo
    /\ Aborted(n, t)
    /\ wal' = [wal EXCEPT ![n] = Append(@ \o rec[n].pending, LogAbort(t))]
    /\ rec' = [rec EXCEPT ![n] =
                 [todo |-> rec[n].todo \ {t}, pending |-> <<RecoveryLog(t)>>]]
    /\ UNCHANGED <<gtx, cpc, all_yes, presp, dresp, net, sent>>
    /\ UNCHANGED <<up, balance, prep, crashes>>

\* the commit that ends recover; the node then serves requests
RecoverFinish(n) ==
    /\ up[n] = "recovering"
    /\ rec[n].todo = {}
    /\ wal' = [wal EXCEPT ![n] = @ \o rec[n].pending]
    /\ rec' = [rec EXCEPT ![n] = NoRecovery]
    /\ up' = [up EXCEPT ![n] = "up"]
    /\ UNCHANGED <<gtx, cpc, all_yes, presp, dresp, net, sent>>
    /\ UNCHANGED <<ltx, locks, balance, prep, crashes>>

\* the orders in which a select can return the rows of a set of transactions
Orders(S) ==
    {q \in [1..Cardinality(S) -> S] : \A x \in S : \E i \in DOMAIN q : q[i] = x}

\* recover_uncertain_transactions: the TransactionLog after abort_transaction
\* has run for each transaction of the sequence q
RecoverWal(rows, q) ==
    rows \o [i \in DOMAIN q |-> LogAbort(q[i])]

\* a plausible bug: the recovery select takes every row that was ever prepared
RecoverLtxDecided(rows) ==
    [t \in TxIds |-> IF rows[t].status \in {"PREPARED", "COMMITTED"}
                     THEN [rows[t] EXCEPT !.status = "ABORTED"] ELSE rows[t]]

\* recover_uncertain_transactions: the LocalTransaction rows of a node after it
RecoverLtx(rows) ==
    [t \in TxIds |-> IF rows[t].status = "PREPARED"
                     THEN [rows[t] EXCEPT !.status = "ABORTED"] ELSE rows[t]]

\* a plausible bug: recovery sets the status and leaves the locks held
RecoverKeepsLocks(rows, S) == rows

\* recover_uncertain_transactions: the Lock rows of a node after it
RecoverLocks(rows, S) ==
    {IF l.transaction_id \in S THEN [l EXCEPT !.released = TRUE] ELSE l : l \in rows}

\* POST /recover, recover_uncertain_transactions: abort_transaction for
\* every PREPARED LocalTransaction of the node
RecoverUncertain(n) ==
    /\ up[n] = "up"
    /\ Registered(ClientPath("recover"))
    /\ LET S == {t \in TxIds : ltx[n][t].status = "PREPARED"}
       IN \E q \in Orders(S) :
            /\ ltx' = [ltx EXCEPT ![n] = RecoverLtx(@)]
            /\ locks' = [locks EXCEPT ![n] = RecoverLocks(@, S)]
            /\ wal' = [wal EXCEPT ![n] = RecoverWal(@, q)]
    /\ UNCHANGED <<gtx, cpc, all_yes, presp, dresp, net, sent>>
    /\ UNCHANGED <<up, balance, prep, rec, crashes>>

\* --------------------------------------------------------- the system
Init ==
    /\ gtx = [t \in TxIds |-> NoGtx]
    /\ cpc = [t \in TxIds |-> "none"]
    /\ all_yes = [t \in TxIds |-> TRUE]
    /\ presp = [t \in TxIds |-> NoResponses]
    /\ dresp = [t \in TxIds |-> NoResponses]
    /\ net = {}
    /\ sent = {}
    /\ up = [n \in Nodes |-> "up"]
    /\ ltx = [n \in Nodes |-> [t \in TxIds |-> NoLtx]]
    /\ locks = [n \in Nodes |-> {}]
    /\ wal = [n \in Nodes |-> <<>>]
    /\ balance = [n \in Nodes |->
                    [a \in {x \in Accounts : HasAccount(n, x)} |-> SeedBalance(n, a)]]
    /\ prep = [n \in Nodes |-> [t \in TxIds |-> Idle]]
    /\ rec = [n \in Nodes |-> NoRecovery]
    /\ crashes = 0

\* transaction ids are the uuids create_transfer draws: a request that
\* names a transaction names one the coordinator has created
Known(t) == gtx[t].status # "NONE"

\* the (node, transaction) pairs a prepare has been started for
Used == {<<n, t>> \in Nodes \X TxIds :
            ltx[n][t].status # "NONE" \/ prep[n][t].pc # "idle"}

Room(n, t) == <<n, t>> \in Used \/ Cardinality(Used) < MaxLocal

\* one global transaction at a time in the whole system
JointRoom == Cardinality({t \in TxIds : Known(t)}) < MaxJoint

\* the whole system: the coordinator, the participant nodes and their clients
Next ==
    \/ \E t \in TxIds, req \in TransferRequests : JointRoom /\ CreateTransfer(t, req)
    \/ \E t \in TxIds : ExecSendPrepare(t)
    \/ \E t \in TxIds : ExecDecide(t)
    \/ \E t \in TxIds : ExecFinish(t)
    \/ \E t \in TxIds, n \in Nodes : RequestTimeout(t, Url(n))
    \/ \E m \in net : ConnectError(m)
    \/ \E m \in net : NotFound(m)
    \/ \E n \in Nodes, t \in TxIds : Known(t) /\ PrepareBegin(n, t)
    \/ \E n \in Nodes, t \in TxIds : AcquireWriteLock(n, t)
    \/ \E n \in Nodes, t \in TxIds : PrepareFinish(n, t)
    \/ \E n \in Nodes, t \in TxIds : CommitTransaction(n, t)
    \/ \E n \in Nodes, t \in TxIds : AbortTransaction(n, t)
    \/ \E n \in Nodes : RecoverUncertain(n)
    \/ \E n \in Nodes : Crash(n)
    \/ \E n \in Nodes : Restart(n)
    \/ \E n \in Nodes, t \in TxIds : RecoverStep(n, t)
    \/ \E n \in Nodes : RecoverFinish(n)

Spec == Init /\ [][Next]_vars

\* the coordinator alone, against nodes that run, die and restart
NextCoordinator ==
    \/ \E t \in TxIds, req \in TransferRequests : CreateTransfer(t, req)
    \/ \E t \in TxIds : ExecSendPrepare(t)
    \/ \E t \in TxIds : ExecDecide(t)
    \/ \E t \in TxIds : ExecFinish(t)
    \/ \E t \in TxIds, n \in Nodes : RequestTimeout(t, Url(n))
    \/ \E m \in net : ConnectError(m)
    \/ \E m \in net : NotFound(m)
    \/ \E n \in Nodes : Crash(n)
    \/ \E n \in Nodes : Restart(n)
    \/ \E n \in Nodes : RecoverFinish(n)

SpecCoordinator == Init /\ [][NextCoordinator]_vars

\* the coordinator's event loop runs every task that can run, and every
\* request the task awaits settles: httpx gives it up after its timeout
FairCoordinator ==
    /\ SpecCoordinator
    /\ \A t \in TxIds :
          /\ WF_vars(ExecSendPrepare(t))
          /\ WF_vars(ExecDecide(t))
          /\ WF_vars(ExecFinish(t))
          /\ \A n \in Nodes : WF_vars(RequestTimeout(t, Url(n)))

\* the whole system while no participant process is killed
NextRunning ==
    \/ \E t \in TxIds, req \in TransferRequests : JointRoom /\ CreateTransfer(t, req)
    \/ \E t \in TxIds : ExecSendPrepare(t)
    \/ \E t \in TxIds : ExecDecide(t)
    \/ \E t \in TxIds : ExecFinish(t)
    \/ \E t \in TxIds, n \in Nodes : RequestTimeout(t, Url(n))
    \/ \E m \in net : NotFound(m)
    \/ \E n \in Nodes, t \in TxIds : Known(t) /\ PrepareBegin(n, t)
    \/ \E n \in Nodes, t \in TxIds : AcquireWriteLock(n, t)
    \/ \E n \in Nodes, t \in TxIds : PrepareFinish(n, t)
    \/ \E n \in Nodes, t \in TxIds : CommitTransaction(n, t)
    \/ \E n \in Nodes, t \in TxIds : AbortTransaction(n, t)
    \/ \E n \in Nodes : RecoverUncertain(n)

\* every task of the coordinator and every handler of a participant that can
\* run does run: the coordinator's requests settle, a request of the
\* coordinator that reaches a handler is handled, and a prepare call goes on
\* to its end; nothing obliges another client to send a request
FairRunning ==
    /\ Init /\ [][NextRunning]_vars
    /\ \A t \in TxIds :
          /\ WF_vars(ExecSendPrepare(t))
          /\ WF_vars(ExecDecide(t))
          /\ WF_vars(ExecFinish(t))
          /\ \A n \in Nodes :
                /\ WF_vars(RequestTimeout(t, Url(n)))
                /\ WF_vars(PrepareBegin(n, t) /\ net' # net)
                /\ WF_vars(AcquireWriteLock(n, t))
                /\ WF_vars(PrepareFinish(n, t))
                /\ WF_vars(CommitTransaction(n, t) /\ net' # net)
                /\ WF_vars(AbortTransaction(n, t) /\ net' # net)
    /\ WF_vars(\E m \in net : NotFound(m))

\* the participant nodes alone, under requests with any transaction id
NextParticipant ==
    \/ \E n \in Nodes, t \in TxIds : Room(n, t) /\ PrepareBegin(n, t)
    \/ \E n \in Nodes, t \in TxIds : AcquireWriteLock(n, t)
    \/ \E n \in Nodes, t \in TxIds : PrepareFinish(n, t)
    \/ \E n \in Nodes, t \in TxIds : CommitTransaction(n, t)
    \/ \E n \in Nodes, t \in TxIds : AbortTransaction(n, t)
    \/ \E n \in Nodes : RecoverUncertain(n)
    \/ \E n \in Nodes : Crash(n)
    \/ \E n \in Nodes : Restart(n)
    \/ \E n \in Nodes, t \in TxIds : RecoverStep(n, t)
    \/ \E n \in Nodes : RecoverFinish(n)

SpecParticipant == Init /\ [][NextParticipant]_vars

\* a transfer between two nodes whose accounts exist and whose source
\* balance covers the amount
Funded(req) ==
    /\ req.from_node # req.to_node
    /\ HasAccount(req.from_node, req.from_account)
    /\ HasAccount(req.to_node, req.to_account)
    /\ SeedBalance(req.from_node, req.from_account) >= req.amount

\* the prepare a node starts for t carries the payload execute_2pc builds
\* for that node
Relayed(n, t) ==
    /\ prep'[n][t].pc # "idle"
    /\ prep'[n][t].operation_type = "transfer"
    /\ \/ /\ n = gtx[t].op.from_node
          /\ prep'[n][t].local_account = gtx[t].op.from_account
          /\ prep'[n][t].local_delta = 0 - gtx[t].op.amount
       \/ /\ n = gtx[t].op.to_node
          /\ prep'[n][t].local_account = gtx[t].op.to_account
          /\ prep'[n][t].local_delta = gtx[t].op.amount

\* lock contention between global transfers: the coordinator with up to
\* MaxGlobal funded transfers, and participants that receive, on the path
\* they serve, the prepare of each transfer once per node
NextContention ==
    \/ \E t \in TxIds, req \in TransferRequests : Funded(req) /\ CreateTransfer(t, req)
    \/ \E t \in TxIds : ExecSendPrepare(t)
    \/ \E t \in TxIds : ExecDecide(t)
    \/ \E t \in TxIds : ExecFinish(t)
    \/ \E t \in TxIds, n \in Nodes : RequestTimeout(t, Url(n))
    \/ \E m \in net : NotFound(m)
    \/ \E n \in Nodes, t \in TxIds :
          Known(t) /\ ltx[n][t].status = "NONE" /\ PrepareBegin(n, t) /\ Relayed(n, t)
    \/ \E n \in Nodes, t \in TxIds : AcquireWriteLock(n, t)
    \/ \E n \in Nodes, t \in TxIds : PrepareFinish(n, t)
    \/ \E n \in Nodes, t \in TxIds : AbortTransaction(n, t)

SpecContention == Init /\ [][NextContention]_vars

\* ------------------------------------------------------------- claims
Range(seq) == {seq[i] : i \in DOMAIN seq}

TwoNodes(t) == gtx[t].status # "NONE" /\ gtx[t].op.from_node # gtx[t].op.to_node

\* the phase 2 requests execute_2pc has sent for transaction t
Decisions(t) == {m \in sent : m.t = t /\ m.kind # "prepare"}

HasLog(n, t, type) ==
    \E i \in DOMAIN wal[n] :
        wal[n][i].transaction_id = t /\ wal[n][i].log_type = type

\* C1, as stated: for every global transfer between two distinct participant
\* nodes, no reachable state has the LocalTransaction of one participant
\* COMMITTED while that of the other participant is ABORTED.
AtomicAcrossNodes ==
    \A t \in TxIds : TwoNodes(t) =>
        \A n, o \in {gtx[t].op.from_node, gtx[t].op.to_node} :
            ~(ltx[n][t].status = "COMMITTED" /\ ltx[o][t].status = "ABORTED")

\* C1, amended: execute_2pc posts one and the same decision to every
\* participant url of the transaction, and posts commit only if every
\* recorded vote is "yes".
UniformDecision ==
    \A t \in TxIds :
        /\ \A m, k \in Decisions(t) : m.kind = k.kind
        /\ Decisions(t) # {} =>
              {Url(m.node) : m \in Decisions(t)} = Range(gtx[t].participant_urls)
        /\ (\E m \in Decisions(t) : m.kind = "commit") =>
              /\ gtx[t].status \in {"COMMITTING", "COMMITTED"}
              /\ \A u \in DOMAIN gtx[t].participant_votes :
                     gtx[t].participant_votes[u] = "yes"

\* the same decision has gone to both nodes, and still one side is COMMITTED
\* while the other, PREPARED when its node was killed, was aborted by recovery
DivergedAfterRecovery ==
    \E t \in TxIds, n \in Nodes, o \in Nodes :
        /\ TwoNodes(t)
        /\ {n, o} = {gtx[t].op.from_node, gtx[t].op.to_node}
        /\ {m.node : m \in Decisions(t)} = {n, o}
        /\ ltx[n][t].status = "COMMITTED"
        /\ ltx[o][t].status = "ABORTED"
        /\ HasLog(o, t, "recovery_abort")

\* C2: the decision write sets COMMITTING only if every prepare request was
\* answered with status 200 and vote "yes"; a request that raised, timed out,
\* was answered with another status or with another vote is recorded as vote
\* "no" and the status is ABORTING, and after ABORTING comes only ABORTED
\* (after COMMITTING only COMMITTED).
TallyDecides ==
    [][\A t \in TxIds :
        /\ (cpc[t] = "prepare" /\ cpc'[t] = "decision") =>
              LET good(u) == /\ presp[t][u].kind = "http"
                             /\ presp[t][u].status = 200
                             /\ presp[t][u].vote = "yes"
              IN /\ gtx'[t].status =
                       IF \A u \in DOMAIN presp[t] : good(u)
                       THEN "COMMITTING" ELSE "ABORTING"
                 /\ DOMAIN gtx'[t].participant_votes = DOMAIN presp[t]
                 /\ \A u \in DOMAIN presp[t] :
                       gtx'[t].participant_votes[u] = IF good(u) THEN "yes" ELSE "no"
        /\ gtx'[t].status = "COMMITTING" => cpc[t] \in {"prepare", "decision"}
        /\ gtx'[t].status = "COMMITTED" => gtx[t].status \in {"COMMITTING", "COMMITTED"}
        /\ gtx[t].status = "ABORTING" => gtx'[t].status \in {"ABORTING", "ABORTED"}
      ]_vars

\* a two-node transfer ended ABORTED with a "no" recorded for each request
AbortedOnBadAnswers ==
    \E t \in TxIds :
        /\ TwoNodes(t)
        /\ gtx[t].status = "ABORTED"
        /\ Cardinality(DOMAIN gtx[t].participant_votes) = 2
        /\ \A u \in DOMAIN gtx[t].participant_votes : gtx[t].participant_votes[u] = "no"

BalancesNonNegative ==
    /\ \A n \in Nodes : \A a \in DOMAIN balance[n] : balance[n][a] >= 0
    /\ \A n \in Nodes, t \in TxIds :
          (/\ ltx[n][t].status = "PREPARED"
           /\ ltx[n][t].operation_type = "transfer"
           /\ ltx[n][t].local_delta < 0)
          => balance[n][ltx[n][t].local_account] + ltx[n][t].local_delta >= 0

\* a debit was committed while another transaction had asked for a debit of
\* the same account
DebitCommittedUnderContention ==
    \E n \in Nodes, t \in TxIds, s \in TxIds :
        /\ t # s
        /\ ltx[n][t].status = "COMMITTED"
        /\ ltx[n][t].local_delta < 0
        /\ balance[n][ltx[n][t].local_account] < SeedBalance(n, ltx[n][t].local_account)
        /\ ltx[n][s].status # "NONE"
        /\ ltx[n][s].local_account = ltx[n][t].local_account
        /\ ltx[n][s].local_delta < 0

\* C7: at most one unreleased lock row exists for a resource on a node.
OneUnreleasedLock ==
    \A n \in Nodes, a \in Accounts :
        Cardinality({l \in locks[n] : l.resource_id = a /\ ~l.released}) <= 1

\* two acquire_write_lock calls polled the resource free, one has inserted
\* its row and the other is about to insert
InsertAfterStalePoll ==
    \E n \in Nodes, t \in TxIds, s \in TxIds :
        /\ t # s
        /\ prep[n][s].pc = "insert"
        /\ \E l \in locks[n] : /\ l.transaction_id = t
                               /\ l.resource_id = prep[n][s].local_account
                               /\ ~l.released

\* C8: a PREPARED LocalTransaction holds an unreleased lock on the account
\* it prepared; a COMMITTED or ABORTED one holds no unreleased lock.
LocksFollowStatus ==
    \A n \in Nodes, t \in TxIds :
        /\ (ltx[n][t].status = "PREPARED" /\ ltx[n][t].operation_type = "transfer") =>
              \E l \in locks[n] : /\ l.transaction_id = t
                                  /\ l.resource_id = ltx[n][t].local_account
                                  /\ ~l.released
        /\ ltx[n][t].status \in {"COMMITTED", "ABORTED"} =>
              \A l \in locks[n] : l.transaction_id = t => l.released

\* one transfer has committed and its lock row is released while another
\* is PREPARED and holds its lock
ReleasedOnCommit ==
    \E n \in Nodes, t \in TxIds, o \in Nodes, s \in TxIds :
        /\ ltx[n][t].status = "COMMITTED"
        /\ \E l \in locks[n] : l.transaction_id = t /\ l.released
        /\ ltx[o][s].status = "PREPARED"
        /\ \E l \in locks[o] : l.transaction_id = s /\ ~l.released

StatusRank(status) ==
    CASE status = "NONE" -> 0
      [] status = "INIT" -> 1
      [] status = "PREPARING" -> 2
      [] status \in {"COMMITTING", "ABORTING"} -> 3
      [] status \in {"COMMITTED", "ABORTED"} -> 4

\* C9: the status of a GlobalTransaction only moves forward in the order
\* INIT, PREPARING, (COMMITTING | ABORTING), (COMMITTED | ABORTED); after
\* COMMITTING only COMMITTED, after ABORTING only ABORTED, and COMMITTED and
\* ABORTED never change.
StatusMovesForward ==
    [][\A t \in TxIds : gtx[t].status # "NONE" =>
        /\ StatusRank(gtx'[t].status) >= StatusRank(gtx[t].status)
        /\ gtx[t].status = "COMMITTING" => gtx'[t].status \in {"COMMITTING", "COMMITTED"}
        /\ gtx[t].status = "ABORTING" => gtx'[t].status \in {"ABORTING", "ABORTED"}
        /\ gtx[t].status \in {"COMMITTED", "ABORTED"} => gtx'[t].status = gtx[t].status
      ]_vars

\* a transaction has gone all the way to a terminal status
ReachedTerminal ==
    \E t \in TxIds : gtx[t].status = "ABORTED" /\ gtx[t].decision_made_at

\* C10: before execute_2pc sends a prepare request the GlobalTransaction is
\* persisted with status PREPARING and prepare_started_at set.
PreparingBeforePrepare ==
    \A t \in TxIds :
        (\E m \in sent : m.t = t /\ m.kind = "prepare") =>
            /\ gtx[t].prepare_started_at
            /\ gtx[t].status # "INIT"

\* C11: if the coordinator does not crash, execute_2pc on an existing
\* GlobalTransaction eventually sets its status to COMMITTED or ABORTED,
\* whatever happens to its prepare and decision requests.
ReachesTerminalStatus ==
    \A t \in TxIds :
        (gtx[t].status # "NONE") ~> (gtx[t].status \in {"COMMITTED", "ABORTED"})

\* every decision request of a two-node transfer has raised, and the task
\* is about to write the terminal status
DecisionRequestsAllFailed ==
    \E t \in TxIds :
        /\ TwoNodes(t)
        /\ cpc[t] = "decision"
        /\ Cardinality(DOMAIN dresp[t]) = 2
        /\ \A u \in DOMAIN dresp[t] : dresp[t][u].kind = "exc"

\* the conditions of the happy path for transaction t: two distinct nodes,
\* both accounts exist, the source balance covers the amount, no crash and
\* no other global transaction
HappyConditions(t) ==
    /\ TwoNodes(t)
    /\ crashes = 0
    /\ \A s \in TxIds \ {t} : gtx[s].status = "NONE"
    /\ HasAccount(gtx[t].op.from_node, gtx[t].op.from_account)
    /\ HasAccount(gtx[t].op.to_node, gtx[t].op.to_account)
    /\ balance[gtx[t].op.from_node][gtx[t].op.from_account] >= gtx[t].op.amount

Answered(resps) == \A u \in DOMAIN resps : resps[u].kind = "http"

\* C12: on the happy path, when both participants have answered every prepare
\* request, execute_2pc writes COMMITTING, and when they have answered every
\* decision request it ends with status COMMITTED.
HappyPathCommits ==
    [][\A t \in TxIds : HappyConditions(t) =>
         /\ (cpc[t] = "prepare" /\ cpc'[t] = "decision" /\ Answered(presp[t]))
               => gtx'[t].status = "COMMITTING"
         /\ (cpc[t] = "decision" /\ cpc'[t] = "done" /\ Answered(dresp[t]))
               => gtx'[t].status = "COMMITTED"
      ]_vars

SameNode(t) == gtx[t].status # "NONE" /\ gtx[t].op.from_node = gtx[t].op.to_node

\* the prepare requests execute_2pc has sent for transaction t
Prepares(t) == {m \in sent : m.t = t /\ m.kind = "prepare"}

\* C13: a transfer whose from_node equals to_node has exactly one participant
\* url and one prepare request, and what the node is asked to prepare (and
\* so applies on commit) is both the debit of the source account and the
\* credit of the destination account.
SameNodeCarriesBothSides ==
    \A t \in TxIds : (SameNode(t) /\ Prepares(t) # {}) =>
        /\ Len(gtx[t].participant_urls) = 1
        /\ Cardinality(Prepares(t)) = 1
        /\ \E m \in Prepares(t) : /\ m.local_account = gtx[t].op.from_account
                                  /\ m.local_delta = 0 - gtx[t].op.amount
        /\ \E m \in Prepares(t) : /\ m.local_account = gtx[t].op.to_account
                                  /\ m.local_delta = gtx[t].op.amount

\* two global transfers debit the same account, which covers either debit
\* but not both
Conflicting(t, s) ==
    /\ t # s
    /\ TwoNodes(t) /\ TwoNodes(s)
    /\ gtx[t].op.from_node = gtx[s].op.from_node
    /\ gtx[t].op.from_account = gtx[s].op.from_account
    /\ LET seed == SeedBalance(gtx[t].op.from_node, gtx[t].op.from_account)
       IN /\ seed >= gtx[t].op.amount
          /\ seed >= gtx[s].op.amount
          /\ seed < gtx[t].op.amount + gtx[s].op.amount

\* C14: when two transfers that debit the same account have both run to
\* their end (no crash), exactly one of them is COMMITTED and the other is
\* ABORTED, and the account is left debited once.
ExactlyOneCommits ==
    \A t \in TxIds, s \in TxIds :
        (Conflicting(t, s) /\ cpc[t] = "done" /\ cpc[s] = "done" /\ crashes = 0) =>
            /\ {gtx[t].status, gtx[s].status} = {"COMMITTED", "ABORTED"}
            /\ \E w \in {t, s} :
                  /\ gtx[w].status = "COMMITTED"
                  /\ balance[gtx[w].op.from_node][gtx[w].op.from_account] =
                        SeedBalance(gtx[w].op.from_node, gtx[w].op.from_account)
                        - gtx[w].op.amount

\* the coordinator and every prepare handler are through with t
Quiescent(t) ==
    /\ cpc[t] = "done"
    /\ \A m \in net : m.t # t
    /\ \A n \in Nodes : up[n] = "up" /\ prep[n][t].pc = "idle"

HoldsLock(n, t) == \E l \in locks[n] : l.transaction_id = t /\ ~l.released

\* C15: once a global transaction has ended ABORTED and every request of it
\* has been dealt with, no participant holds an unreleased lock for it.
AbortReleasesEverywhere ==
    \A t \in TxIds :
        (TwoNodes(t) /\ gtx[t].status = "ABORTED" /\ Quiescent(t)) =>
            \A n \in Nodes : ~HoldsLock(n, t)

\* the number of TransactionLog rows of one type node n holds for t
LogCount(n, t, type) ==
    Cardinality({i \in DOMAIN wal[n] :
                    wal[n][i].transaction_id = t /\ wal[n][i].log_type = type})

\* the deltas of the COMMITTED transfers of the transactions in S on account a
RECURSIVE CommittedDeltas(_, _, _)
CommittedDeltas(n, a, S) ==
    IF S = {} THEN 0
    ELSE LET t == CHOOSE x \in S : TRUE
         IN (IF /\ ltx[n][t].status = "COMMITTED"
                /\ ltx[n][t].operation_type = "transfer"
                /\ ltx[n][t].local_account = a
             THEN ltx[n][t].local_delta ELSE 0)
            + CommittedDeltas(n, a, S \ {t})

\* C16: a commit_transaction call on a row that is absent or not PREPARED
\* changes no balance, WAL row, lock or status; and over every sequence of
\* calls each account holds its initial balance plus the delta of each
\* COMMITTED transfer exactly once, with one commit WAL row per COMMITTED row.
CommitAppliesOnce ==
    /\ [](\A n \in Nodes :
            /\ \A a \in DOMAIN balance[n] :
                  balance[n][a] = SeedBalance(n, a) + CommittedDeltas(n, a, TxIds)
            /\ \A t \in TxIds :
                  LogCount(n, t, "commit") =
                      IF ltx[n][t].status = "COMMITTED" THEN 1 ELSE 0)
    /\ [][\A n \in Nodes, t \in TxIds :
            (ltx[n][t].status # "PREPARED" /\ CommitTransaction(n, t)) =>
                UNCHANGED dbVars]_vars

\* a transfer has been committed on a node: its delta is in the balance, and
\* further commit calls meet a COMMITTED row
CommittedTransfer ==
    \E n \in Nodes, t \in TxIds :
        /\ ltx[n][t].status = "COMMITTED"
        /\ ltx[n][t].operation_type = "transfer"
        /\ ltx[n][t].local_delta # 0
        /\ balance[n][ltx[n][t].local_account] # SeedBalance(n, ltx[n][t].local_account)
        /\ LogCount(n, t, "commit") = 1

\* C17: an abort_transaction call on a row that is absent, COMMITTED or
\* ABORTED writes no WAL row, lock, balance or status; a COMMITTED or ABORTED
\* row is never changed again, and an abort WAL row exists only for a row
\* that is ABORTED, at most once and never together with a commit row.
AbortIsSilentWhenSettled ==
    /\ [][\A n \in Nodes, t \in TxIds :
            (/\ ltx[n][t].status \in {"NONE", "COMMITTED", "ABORTED"}
             /\ AbortTransaction(n, t)) =>
                UNCHANGED dbVars]_vars
    /\ [][\A n \in Nodes, t \in TxIds :
            ltx[n][t].status \in {"COMMITTED", "ABORTED"} =>
                ltx'[n][t] = ltx[n][t]]_vars
    /\ [](\A n \in Nodes, t \in TxIds :
            /\ LogCount(n, t, "abort") <= 1
            /\ LogCount(n, t, "abort") = 1 =>
                  ltx[n][t].status = "ABORTED" /\ LogCount(n, t, "commit") = 0)

\* an abort has settled a PREPARED row, and another row of the node is
\* COMMITTED: further abort calls meet both terminal statuses
AbortedAndCommittedRows ==
    \E n \in Nodes, t \in TxIds, s \in TxIds :
        /\ ltx[n][t].status = "ABORTED" /\ LogCount(n, t, "abort") = 1
        /\ ltx[n][s].status = "COMMITTED"

\* C18: a prepare request for a transaction whose LocalTransaction row
\* exists on the node is answered with the vote the first call gave.
RepeatedPrepareSameVote ==
    \A n \in Nodes, t \in TxIds :
        ltx[n][t].status # "NONE" => DuplicateVote(ltx[n][t]) = ltx[n][t].vote

NonePrepared(n) == \A t \in TxIds : ltx[n][t].status # "PREPARED"

\* C19: a run of recovery, at startup or through POST /recover, leaves every
\* PREPARED LocalTransaction of the node ABORTED with its locks released and
\* none PREPARED; a run that finds no PREPARED row changes no status, lock,
\* WAL row or balance.
RecoveryDeterminism ==
    /\ [](\A n \in Nodes, t \in TxIds :
            (up[n] = "recovering" /\ ltx[n][t].status = "PREPARED") =>
                t \in rec[n].todo)
    /\ [][\A n \in Nodes :
            /\ (up[n] = "recovering" /\ up'[n] = "up") =>
                  /\ NonePrepared(n)'
                  /\ ltx' = ltx /\ locks' = locks /\ balance' = balance
            /\ \A t \in TxIds :
                  (/\ up[n] = "recovering" \/ RecoverUncertain(n)
                   /\ ltx[n][t].status = "PREPARED"
                   /\ ltx'[n][t] # ltx[n][t]) =>
                      /\ ltx'[n][t].status = "ABORTED"
                      /\ ~HoldsLock(n, t)'
                      /\ balance' = balance
            /\ RecoverUncertain(n) => NonePrepared(n)'
            /\ (NonePrepared(n) /\ RecoverUncertain(n)) => UNCHANGED dbVars
            /\ (NonePrepared(n) /\ Restart(n)) => rec'[n] = NoRecovery
            /\ (rec[n] = NoRecovery /\ RecoverFinish(n)) => UNCHANGED dbVars]_vars

\* a node is serving again after its startup recovery aborted a PREPARED
\* transaction
RecoveredAtStartup ==
    \E n \in Nodes, t \in TxIds :
        /\ up[n] = "up" /\ crashes > 0
        /\ ltx[n][t].status = "ABORTED" /\ ltx[n][t].vote = "yes"
        /\ HasLog(n, t, "recovery_abort")
        /\ NonePrepared(n)

\* C20: every PREPARED LocalTransaction that a recovery run sets to ABORTED,
\* at startup or through POST /recover, has its locks released and gets a
\* recovery_abort WAL row with applied = TRUE (at startup the row is written
\* by the commit that follows).
RecoveryLogsEveryAbort ==
    [][\A n \in Nodes, t \in TxIds :
         (/\ up[n] = "recovering" \/ RecoverUncertain(n)
          /\ ltx[n][t].status = "PREPARED"
          /\ ltx'[n][t].status = "ABORTED") =>
             /\ ~HoldsLock(n, t)'
             /\ RecoveryLog(t) \in Range(wal'[n]) \cup Range(rec'[n].pending)]_vars

\* a step in which node n handles (part of) a prepare, commit or abort request
Handles(n) ==
    \E t \in TxIds :
        \/ PrepareBegin(n, t) \/ AcquireWriteLock(n, t) \/ PrepareFinish(n, t)
        \/ CommitTransaction(n, t) \/ AbortTransaction(n, t)

\* C21: a participant that starts goes through recovery of exactly its
\* PREPARED rows, handles no prepare, commit or abort request until that
\* recovery has completed, and does not run it again while it stays up;
\* recovery touches no row of the coordinator.
RecoveryBeforeRequests ==
    [][\A n \in Nodes :
         /\ (up[n] = "down" /\ up'[n] # "down") =>
               /\ up'[n] = "recovering"
               /\ rec'[n].todo = {t \in TxIds : ltx[n][t].status = "PREPARED"}
         /\ up[n] # "up" => ~Handles(n)
         /\ (up[n] = "recovering" /\ up'[n] = "up") =>
               rec[n].todo = {} /\ NonePrepared(n)'
         /\ up[n] = "recovering" =>
               \A t \in TxIds : ltx'[n][t] # ltx[n][t] => t \in rec[n].todo \ rec'[n].todo
         /\ up[n] = "up" => up'[n] \in {"up", "down"} /\ rec'[n] = NoRecovery
         /\ (up'[n] # up[n] \/ rec'[n] # rec[n]) => UNCHANGED <<gtx, cpc, all_yes, sent>>]_vars

\* a restarted node is inside its startup recovery with a PREPARED row still
\* to abort, while a request for that transaction waits
RecoveringWithWork ==
    \E n \in Nodes, t \in TxIds :
        /\ up[n] = "recovering"
        /\ t \in rec[n].todo /\ ltx[n][t].status = "PREPARED"
        /\ Known(t)

\* C22: in the WAL of every participant, a commit or abort row of a
\* transaction comes after a prepare row of that transaction.
PrepareRowPrecedes ==
    \A n \in Nodes : \A i \in DOMAIN wal[n] :
        wal[n][i].log_type \in {"commit", "abort"} =>
            \E j \in 1..(i - 1) :
                /\ wal[n][j].transaction_id = wal[n][i].transaction_id
                /\ wal[n][j].log_type = "prepare"

\* C23: when the poll of acquire_write_lock found no unreleased lock on the
\* resource and none is there at the insert, the call inserts a lock row of
\* the transaction for the resource, also when an earlier transaction held
\* and released a lock on it.
FreeResourceIsAcquired ==
    [][\A n \in Nodes, t \in TxIds :
         (/\ prep[n][t].pc = "insert" /\ prep'[n][t].pc = "idle"
          /\ up'[n] = "up"
          /\ ~ExistingLock(locks[n], prep[n][t].local_account)) =>
             \E l \in locks'[n] :
                 /\ l.resource_id = prep[n][t].local_account
                 /\ l.transaction_id = t]_vars

\* what a decision request of execute_2pc can settle to at an HTTP peer
DecisionAnswers == {Raised, HttpResponse(200, ""), HttpResponse(404, "")}

Acknowledged(resp) == resp.kind = "http" /\ resp.status = 200

\* C24: whatever the decision requests of a transaction settle to, the
\* participant_decisions execute_2pc leaves behind maps each url that
\* acknowledged to the decision, and has no entry for a url whose request
\* raised or was answered with an error.
DecisionsRecorded ==
    \A t \in TxIds :
        cpc[t] = "decision" =>
            \A resps \in [DOMAIN dresp[t] -> DecisionAnswers] :
                LET decision == Decision(all_yes[t])
                    d == ParticipantDecisions(gtx[t].participant_decisions,
                                              resps, decision)
                IN \A u \in DOMAIN resps :
                      /\ Acknowledged(resps[u]) => u \in DOMAIN d /\ d[u] = decision
                      /\ ~Acknowledged(resps[u]) => u \notin DOMAIN d

\* a prepare of node n for t is at its lock insert, for a debit the balance
\* of the account does not cover, and the step ends the call
EndsUnfundedDebit(n, t) ==
    /\ prep[n][t].pc = "insert" /\ prep'[n][t].pc = "idle"
    /\ up'[n] = "up"
    /\ HasAccount(n, prep[n][t].local_account)
    /\ prep[n][t].local_delta < 0
    /\ balance[n][prep[n][t].local_account] < Abs(prep[n][t].local_delta)

\* C25: a prepare for a debit the balance does not cover leaves the
\* LocalTransaction ABORTED with vote "no", writes no prepare WAL row, leaves
\* no unreleased lock of the transaction and leaves every balance as it was.
UnfundedDebitAborts ==
    [][\A n \in Nodes, t \in TxIds :
         EndsUnfundedDebit(n, t) =>
             /\ ltx'[n][t].status = "ABORTED" /\ ltx'[n][t].vote = "no"
             /\ wal' = wal
             /\ ~HoldsLock(n, t)'
             /\ balance' = balance]_vars

\* the lock insert of a prepare of node n for t raises, and the step ends
\* the call
LockInsertRaises(n, t) ==
    /\ prep[n][t].pc = "insert" /\ prep'[n][t].pc = "idle"
    /\ up'[n] = "up"
    /\ UniqueViolation(locks[n], prep[n][t].local_account)

\* C26: when an exception is raised during prepare, the call leaves the
\* LocalTransaction of the transaction ABORTED with vote "no" and no
\* unreleased lock of the transaction.
ExceptionAbortsPrepare ==
    [][\A n \in Nodes, t \in TxIds :
         LockInsertRaises(n, t) =>
             /\ ltx'[n][t].status = "ABORTED" /\ ltx'[n][t].vote = "no"
             /\ ~HoldsLock(n, t)']_vars

\* a step of a prepare_transaction call of node n
Preparing(n) ==
    \E t \in TxIds :
        PrepareBegin(n, t) \/ AcquireWriteLock(n, t) \/ PrepareFinish(n, t)

\* C27: no step of prepare_transaction changes a balance, whatever its
\* outcome; the row it logs has applied = FALSE, the balance it read as
\* old_state and that balance plus the delta as new_state.
PrepareWritesNoBalance ==
    /\ [][\A n \in Nodes : Preparing(n) => balance' = balance]_vars
    /\ [][\A n \in Nodes, t \in TxIds :
            (PrepareFinish(n, t) /\ wal'[n] # wal[n]) =>
                /\ ltx'[n][t].vote = "yes"
                /\ wal'[n] = Append(wal[n],
                       [transaction_id |-> t, log_type |-> "prepare",
                        applied |-> FALSE,
                        old_state |-> balance'[n][prep[n][t].local_account],
                        new_state |-> balance'[n][prep[n][t].local_account]
                                      + prep[n][t].local_delta])]_vars
    /\ [](\A n \in Nodes : \A i \in DOMAIN wal[n] :
            wal[n][i].log_type = "prepare" => ~wal[n][i].applied)

\* a prepare has voted "yes" for a transfer: its WAL row carries a new
\* balance the account does not have
PreparedNotApplied ==
    \E n \in Nodes, t \in TxIds : \E i \in DOMAIN wal[n] :
        /\ ltx[n][t].status = "PREPARED" /\ ltx[n][t].operation_type = "transfer"
        /\ wal[n][i].transaction_id = t /\ wal[n][i].log_type = "prepare"
        /\ wal[n][i].new_state # balance[n][ltx[n][t].local_account]
        /\ wal[n][i].old_state = balance[n][ltx[n][t].local_account]

\* the changes of the committed status of a LocalTransaction the claim
\* allows; a row is absent (NONE) until the call that inserted it as
\* PREPARING commits
StatusEdges ==
    {<<"NONE", "PREPARED">>, <<"NONE", "ABORTED">>,
     <<"PREPARED", "COMMITTED">>, <<"PREPARED", "ABORTED">>}

\* C28: the committed status of every LocalTransaction changes only from
\* absent (through PREPARING) to PREPARED or ABORTED and from PREPARED to
\* COMMITTED or ABORTED; COMMITTED and ABORTED never change.
LocalStatusEdges ==
    [][\A n \in Nodes, t \in TxIds :
         ltx'[n][t].status # ltx[n][t].status =>
             <<ltx[n][t].status, ltx'[n][t].status>> \in StatusEdges]_vars

\* one row of a node was aborted before it was PREPARED, the other after
BothAbortEdges ==
    \E n \in Nodes, t \in TxIds, s \in TxIds :
        /\ ltx[n][t].status = "ABORTED" /\ ltx[n][t].vote = "no"
        /\ ltx[n][s].status = "ABORTED" /\ ltx[n][s].vote = "yes"

\* t and s went through a wait cycle over nodes n and m: t got its lock on n
\* and s on m, and each was refused on the other node after waiting there
WaitCycle(t, s, n, m) ==
    /\ t # s /\ n # m
    /\ ltx[n][t].vote = "yes" /\ ltx[m][s].vote = "yes"
    /\ ltx[m][t].status = "ABORTED" /\ ltx[m][t].vote = "no"
    /\ ltx[n][s].status = "ABORTED" /\ ltx[n][s].vote = "no"

\* C29: once two transfers that went through a cross-node wait cycle have
\* run to their end, both global transactions are COMMITTED or ABORTED, no
\* prepare of them is waiting and no lock of them is unreleased.
WaitCycleResolves ==
    \A t \in TxIds, s \in TxIds, n \in Nodes, m \in Nodes :
        (WaitCycle(t, s, n, m) /\ Quiescent(t) /\ Quiescent(s)) =>
            /\ gtx[t].status \in {"COMMITTED", "ABORTED"}
            /\ gtx[s].status \in {"COMMITTED", "ABORTED"}
            /\ \A x \in Nodes : ~HoldsLock(x, t) /\ ~HoldsLock(x, s)

\* the committed rows of node n show the whole of what was done for t
WholeEffects(n, t) ==
    /\ ltx[n][t].status = "COMMITTED" <=> HasLog(n, t, "commit")
    /\ (ltx[n][t].status = "PREPARED" /\ ltx[n][t].operation_type = "transfer") =>
          /\ HasLog(n, t, "prepare")
          /\ \E l \in locks[n] :
                /\ l.transaction_id = t /\ ~l.released
                /\ l.resource_id = ltx[n][t].local_account

\* C30: in every committed state of a participant a LocalTransaction is
\* COMMITTED exactly when its commit WAL row exists and its delta is in the
\* balance, and a PREPARED transfer has its prepare WAL row and its
\* unreleased lock; every status change is committed together with the WAL
\* row that describes it, in recovery too.
DurableTogether ==
    /\ [](\A n \in Nodes :
            /\ \A t \in TxIds : WholeEffects(n, t)
            /\ \A a \in DOMAIN balance[n] :
                  balance[n][a] - CommittedDeltas(n, a, TxIds) = SeedBalance(n, a))
    /\ [][\A n \in Nodes, t \in TxIds :
            /\ (ltx[n][t].status = "PREPARED" /\ ltx'[n][t].status = "COMMITTED") =>
                  wal'[n] = Append(wal[n], LogCommit(t))
            /\ (ltx[n][t].status = "PREPARED" /\ ltx'[n][t].status = "ABORTED"
                /\ up[n] = "up") =>
                  LogAbort(t) \in Range(wal'[n]) \ Range(wal[n])
            /\ (ltx[n][t].status = "PREPARED" /\ ltx'[n][t].status = "ABORTED"
                /\ up[n] = "recovering") =>
                  {LogAbort(t), RecoveryLog(t)} \subseteq Range(wal'[n]) \ Range(wal[n])]_vars

\* C31, as stated: a LocalTransaction of a global transaction is COMMITTED
\* only if the GlobalTransaction is COMMITTING or COMMITTED.
CommittedOnlyOnDecision ==
    \A n \in Nodes, t \in TxIds :
        (Known(t) /\ ltx[n][t].status = "COMMITTED") =>
            gtx[t].status \in {"COMMITTING", "COMMITTED"}

\* C31, amended: execute_2pc sends a commit request only in the step that
\* sets COMMITTING, with every vote "yes"; a participant sets COMMITTED, and
\* changes a balance, only for a row that is PREPARED with its own vote "yes".
CommitNeedsOwnYes ==
    /\ [][\A m \in sent' \ sent :
            m.kind = "commit" =>
                /\ gtx'[m.t].status = "COMMITTING"
                /\ \A u \in DOMAIN gtx'[m.t].participant_votes :
                      gtx'[m.t].participant_votes[u] = "yes"]_vars
    /\ [][\A n \in Nodes, t \in TxIds :
            (ltx[n][t].status # "COMMITTED" /\ ltx'[n][t].status = "COMMITTED") =>
                ltx[n][t].status = "PREPARED" /\ ltx[n][t].vote = "yes"]_vars
    /\ [][\A n \in Nodes :
            balance'[n] # balance[n] =>
                \E t \in TxIds :
                    /\ ltx[n][t].status = "PREPARED" /\ ltx[n][t].vote = "yes"
                    /\ ltx'[n][t].status = "COMMITTED"]_vars

\* a participant has committed a transfer of a global transaction that the
\* coordinator decided to abort and never sent a commit request for
CommittedAgainstDecision ==
    \E n \in Nodes, t \in TxIds :
        /\ gtx[t].status \in {"ABORTING", "ABORTED"}
        /\ \A m \in Decisions(t) : m.kind = "abort"
        /\ ltx[n][t].status = "COMMITTED" /\ ltx[n][t].operation_type = "transfer"
        /\ balance[n][ltx[n][t].local_account] # SeedBalance(n, ltx[n][t].local_account)

\* abort_transaction for t on node n returns silently: the node can handle
\* an abort request for t here and be in this very state afterwards
ReturnsSilently(n, t) ==
    /\ up[n] = "up"
    /\ Registered(ClientPath("abort"))
    /\ ltx[n][t].status \in {"NONE", "COMMITTED", "ABORTED"}

\* C32: in a state a node is in after it has handled an abort request for t,
\* no step makes the LocalTransaction of t PREPARED or gives t an unreleased
\* lock on the node.
AbortBlocksPrepare ==
    [][\A n \in Nodes, t \in TxIds :
         ReturnsSilently(n, t) =>
             /\ ltx'[n][t].status # "PREPARED"
             /\ ~HoldsLock(n, t)']_vars

\* C33, as stated: every LocalTransaction that is PREPARED is eventually
\* COMMITTED or ABORTED with its locks released.
PreparedTerminates ==
    \A n \in Nodes, t \in TxIds :
        (ltx[n][t].status = "PREPARED") ~>
            (ltx[n][t].status \in {"COMMITTED", "ABORTED"} /\ ~HoldsLock(n, t))

\* C33, amended: while no participant restarts, a PREPARED row changes, and
\* its lock is released, only in a step that handles a commit or abort
\* request for it or runs POST /recover; that step leaves it COMMITTED or
\* ABORTED without a lock.
PreparedWaitsForDecision ==
    [][\A n \in Nodes, t \in TxIds :
         (/\ ltx[n][t].status = "PREPARED"
          /\ ltx'[n][t] # ltx[n][t] \/ (HoldsLock(n, t) /\ ~HoldsLock(n, t)')) =>
             /\ CommitTransaction(n, t) \/ AbortTransaction(n, t)
                   \/ RecoverUncertain(n)
             /\ ltx'[n][t].status \in {"COMMITTED", "ABORTED"}
             /\ ~HoldsLock(n, t)']_vars

\* the coordinator is through with a transaction it aborted, none of its
\* requests is left, and a participant holds the transaction PREPARED with
\* its lock
PreparedAfterLostDecision ==
    \E n \in Nodes, t \in TxIds :
        /\ gtx[t].status = "ABORTED" /\ Quiescent(t)
        /\ Decisions(t) # {}
        /\ ltx[n][t].status = "PREPARED" /\ HoldsLock(n, t)

\* the new_state of the prepare WAL row of t on node n
PreparedNewState(n, t) ==
    LET i == CHOOSE k \in DOMAIN wal[n] :
                 wal[n][k].transaction_id = t /\ wal[n][k].log_type = "prepare"
    IN wal[n][i].new_state

\* C34: when a transfer LocalTransaction commits, the balance of its account
\* right after the commit is the new_state of its prepare WAL row.
CommitReachesPreparedBalance ==
    [][\A n \in Nodes, t \in TxIds :
         (/\ ltx[n][t].status = "PREPARED" /\ ltx'[n][t].status = "COMMITTED"
          /\ ltx[n][t].operation_type = "transfer") =>
             /\ HasLog(n, t, "prepare")
             /\ balance'[n][ltx[n][t].local_account] = PreparedNewState(n, t)]_vars

\* a transfer that changes the balance has been committed
CommittedAtPreparedBalance ==
    \E n \in Nodes, t \in TxIds :
        /\ ltx[n][t].status = "COMMITTED" /\ ltx[n][t].operation_type = "transfer"
        /\ ltx[n][t].local_delta # 0
        /\ HasLog(n, t, "prepare")
        /\ balance[n][ltx[n][t].local_account] = PreparedNewState(n, t)

====
